---------------------------- MODULE Spec2Model ----------------------------
(***************************************************************************)
(* Sensor page engine of asterctl: the shared sensor store and its poller  *)
(* (sensors.rs), the template compiler, the page compiler and the          *)
(* schedule-aware page cycle loop (main.rs).                               *)
(*                                                                         *)
(* Strings are sequences of character codes (ASCII), so the lexicographic  *)
(* order of String is the lexicographic order of the sequences.            *)
(* Option<T> is a sequence of length at most one: None is <<>> and Some(x) *)
(* is <<x>>.                                                               *)
(***************************************************************************)
EXTENDS Naturals, Sequences, FiniteSets, TLC

VARIABLES
    cfg,            \* MonitorConfig, immutable after load_configuration
    sensor_values,  \* Arc<RwLock<HashMap<String, String>>> (main.rs:209)
    hour,           \* chrono::Local::now().hour(), the wall clock
    screen_power,   \* AooScreen: the panel's power state
    poller,         \* start_sensor_poller: "new" | "running"
    pc,             \* position of the main thread in run_sensor_panel
    templates,      \* Vec<CompiledTemplate> (main.rs:226)
    pages,          \* Vec<PageKind> (main.rs:244)
    page_idx,       \* main.rs:268
    display_off,    \* main.rs:257
    elapsed,        \* page_start.elapsed() in seconds (main.rs:306)
    tick_log,       \* what the last step of the main thread did
    raw_sensors,    \* the poller's HashMap of one iteration (sensors.rs:107)
    merge_todo,     \* keys of the source the merge has not visited yet
    lock,           \* the RwLock around sensor_values
    poll_log,       \* what the collection of the last poll tick logged
    call,           \* arguments of a function called on its own
    ret,            \* Option: the value that call returned
    fs,             \* aster-sysinfo: content of the files it touches
    stream          \* aster-sysinfo: the BufWriter's buffer

\* the state of one poller iteration, of a single call, of the collector
storeVars == <<raw_sensors, merge_todo, lock, poll_log>>

callVars == <<call, ret>>

fileVars == <<fs, stream>>

vars == <<cfg, sensor_values, hour, screen_power, poller, pc, templates,
          pages, page_idx, display_off, elapsed, tick_log, storeVars,
          callVars, fileVars>>

---------------------------------------------------------------------------
(* Option and string helpers                                               *)

None == <<>>

Some(x) == <<x>>

is_some(o) == o # <<>>

unwrap(o) == o[1]

\* '{' and '}' of the placeholder format!("{{{i}}}")
LBrace == 123

RBrace == 125

\* the decimal digit character of i, 0 <= i <= 9
Digit(i) == 48 + i

\* "Sensor"
GenericLabel == <<83, 101, 110, 115, 111, 114>>

\* a < b in the order of String (byte-wise lexicographic)
RECURSIVE str_lt(_, _)
str_lt(a, b) ==
    IF b = <<>> THEN FALSE
    ELSE IF a = <<>> THEN TRUE
    ELSE IF Head(a) # Head(b) THEN Head(a) < Head(b)
    ELSE str_lt(Tail(a), Tail(b))

\* Vec::sort: insertion of one element into a sorted vector
RECURSIVE sort_insert(_, _)
sort_insert(sorted, k) ==
    IF sorted = <<>> THEN <<k>>
    ELSE IF str_lt(k, Head(sorted)) THEN <<k>> \o sorted
         ELSE <<Head(sorted)>> \o sort_insert(Tail(sorted), k)

\* mutant of sort: the vector is left in iteration order
sort_skipped(v) == v

\* Vec::sort of a vector of strings, ascending
RECURSIVE sort(_)
sort(v) ==
    IF v = <<>> THEN <<>> ELSE sort_insert(sort(Tail(v)), Head(v))

\* HashMap::keys(): the iteration order of a HashMap is unspecified, so the
\* collected vector is any arrangement of the key set
RECURSIVE hash_orders(_)
hash_orders(S) ==
    IF S = {} THEN {<<>>}
    ELSE UNION {{<<k>> \o rest : rest \in hash_orders(S \ {k})} : k \in S}

\* str::replace: every non-overlapping occurrence of from, left to right
RECURSIVE str_replace(_, _, _)
str_replace(s, from, to) ==
    IF Len(s) < Len(from) THEN s
    ELSE IF SubSeq(s, 1, Len(from)) = from
         THEN to \o str_replace(SubSeq(s, Len(from) + 1, Len(s)), from, to)
         ELSE <<Head(s)>> \o str_replace(Tail(s), from, to)

---------------------------------------------------------------------------
(* Regular expressions.  A pattern is a sequence of elements, each a       *)
(* character code (a literal) or AnyGroup, the capture group "(.)"; the    *)
(* pattern <<97, AnyGroup>> is the regex ^a(.)$.  BadParen is an unclosed  *)
(* "(", which makes Regex::new fail.                                       *)

AnyGroup == 0

BadParen == 1

\* Regex::new: Ok(re) is Some(pattern), Err is None
Regex_new(pattern) ==
    IF \E i \in 1..Len(pattern) : pattern[i] = BadParen THEN None
    ELSE Some(pattern)

\* Regex::is_match
is_match(re, key) ==
    /\ Len(key) = Len(re)
    /\ \A i \in 1..Len(re) : re[i] = AnyGroup \/ re[i] = key[i]

\* the texts of the capture groups 1, 2, ... of a match, each Some(text)
RECURSIVE group_texts(_, _)
group_texts(re, key) ==
    IF re = <<>> THEN <<>>
    ELSE (IF Head(re) = AnyGroup THEN <<Some(<<Head(key)>>)>> ELSE <<>>)
         \o group_texts(Tail(re), Tail(key))

\* Regex::captures: None, or Some(caps)
captures(re, key) ==
    IF is_match(re, key) THEN Some(group_texts(re, key)) ELSE None

\* Captures::get(i) for i >= 1: None when the group does not exist
caps_get(caps, i) == IF i \in DOMAIN caps THEN caps[i] ELSE None

---------------------------------------------------------------------------
(* Template compiler and page compiler (main.rs)                           *)

\* the templates of one panel up to the first sensor without a pattern
\* that compiles
RECURSIVE compile_panel_abort(_)
compile_panel_abort(sensors) ==
    IF sensors = <<>> THEN <<>>
    ELSE LET sensor == Head(sensors)
             re     == IF is_some(sensor.match_pattern)
                       THEN Regex_new(unwrap(sensor.match_pattern))
                       ELSE None
         IN  IF is_some(re)
             THEN <<[regex |-> unwrap(re), sensor |-> sensor]>>
                  \o compile_panel_abort(Tail(sensors))
             ELSE <<>>

\* the templates of one panel: a CompiledTemplate per sensor whose pattern
\* is present and compiles
RECURSIVE compile_panel(_)
compile_panel(sensors) ==
    IF sensors = <<>> THEN <<>>
    ELSE LET sensor == Head(sensors)
             re     == IF is_some(sensor.match_pattern)
                       THEN Regex_new(unwrap(sensor.match_pattern))
                       ELSE None
         IN  (IF is_some(re)
              THEN <<[regex |-> unwrap(re), sensor |-> sensor]>>
              ELSE <<>>)
             \o compile_panel(Tail(sensors))

RECURSIVE compile_active(_, _)
compile_active(c, active_panels) ==
    IF active_panels = <<>> THEN <<>>
    ELSE LET active == Head(active_panels)
         IN  (IF active = 0 \/ active > Len(c.panels)
              THEN <<>>
              ELSE compile_panel(c.panels[active].sensor))
             \o compile_active(c, Tail(active_panels))

compile_sensor_templates(c) == compile_active(c, c.active_panels)

\* for i in 1..=9 { if let Some(m) = caps.get(i) { result = result.replace(..) } }
RECURSIVE expand_from(_, _, _)
expand_from(result, caps, i) ==
    IF i > 9 THEN result
    ELSE LET placeholder == <<LBrace, Digit(i), RBrace>>
             m           == caps_get(caps, i)
         IN  expand_from(IF is_some(m)
                         THEN str_replace(result, placeholder, unwrap(m))
                         ELSE result,
                         caps, i + 1)

expand_template_name(sensor, caps) ==
    LET base_name == IF is_some(sensor.name) THEN unwrap(sensor.name)
                     ELSE IF is_some(sensor.item_name)
                          THEN unwrap(sensor.item_name)
                          ELSE GenericLabel
    IN  expand_from(base_name, caps, 1)

SensorPage(key, display_name, sensor) ==
    [kind |-> "Sensor", sensor_key |-> key, display_name |-> display_name,
     template |-> sensor]

TimePage(label) == [kind |-> "Time", label |-> label]

\* mutant of template_matches: keys already matched are not skipped
RECURSIVE template_matches_unclaimed(_, _, _)
template_matches_unclaimed(tmpl, sensor_keys, matched_keys) ==
    IF sensor_keys = <<>> THEN <<>>
    ELSE LET key  == Head(sensor_keys)
             caps == captures(tmpl.regex, key)
         IN  (IF is_some(caps)
              THEN <<<<key, expand_template_name(tmpl.sensor, unwrap(caps))>>>>
              ELSE <<>>)
             \o template_matches_unclaimed(tmpl, Tail(sensor_keys),
                                           matched_keys)

\* the inner scan of one template over the sorted keys (main.rs:439-448)
RECURSIVE template_matches(_, _, _)
template_matches(tmpl, sensor_keys, matched_keys) ==
    IF sensor_keys = <<>> THEN <<>>
    ELSE LET key  == Head(sensor_keys)
             caps == captures(tmpl.regex, key)
         IN  (IF key \notin matched_keys /\ is_some(caps)
              THEN <<<<key, expand_template_name(tmpl.sensor, unwrap(caps))>>>>
              ELSE <<>>)
             \o template_matches(tmpl, Tail(sensor_keys), matched_keys)

\* for (key, display_name) in matches { matched_keys.insert; pages.push }
matched_insert(matched_keys, matches) ==
    matched_keys \cup {matches[i][1] : i \in 1..Len(matches)}

match_pages(tmpl, matches) ==
    [i \in 1..Len(matches) |->
        SensorPage(matches[i][1], matches[i][2], tmpl.sensor)]

\* for tmpl in templates { ... } (main.rs:438-457)
RECURSIVE build_templates(_, _, _, _)
build_templates(tmpls, sensor_keys, matched_keys, acc) ==
    IF tmpls = <<>> THEN acc
    ELSE LET tmpl    == Head(tmpls)
             matches == template_matches(tmpl, sensor_keys, matched_keys)
         IN  build_templates(Tail(tmpls), sensor_keys,
                             matched_insert(matched_keys, matches),
                             acc \o match_pages(tmpl, matches))

\* mutant of build_pages: the templates are tried from the last to the first
build_pages_last_first(tmpls, keys, c) ==
    LET reversed     == [i \in 1..Len(tmpls) |-> tmpls[Len(tmpls) + 1 - i]]
        sensor_pages == build_templates(reversed, sort(keys), {}, <<>>)
    IN  IF is_some(c.setup.time_page)
        THEN Append(sensor_pages, TimePage(unwrap(c.setup.time_page)))
        ELSE sensor_pages

\* keys is values.keys().collect(), in the iteration order of the HashMap
build_pages(tmpls, keys, c) ==
    LET sensor_keys  == sort(keys)
        sensor_pages == build_templates(tmpls, sensor_keys, {}, <<>>)
    IN  IF is_some(c.setup.time_page)
        THEN Append(sensor_pages, TimePage(unwrap(c.setup.time_page)))
        ELSE sensor_pages

---------------------------------------------------------------------------
(* Sensor store and poller (sensors.rs)                                    *)

is_filtered(key, filters) ==
    \E i \in 1..Len(filters) : is_match(filters[i], key)

\* HashMap::entry(key).or_insert(value): a present key keeps its value
hash_insert_keep(target, key, value) ==
    [k \in DOMAIN target \cup {key} |->
        IF k \in DOMAIN target THEN target[k] ELSE value]

\* a map of one entry: the inserted key evicts the keys present
hash_insert_evict(target, key, value) == [k \in {key} |-> value]

\* HashMap::insert
hash_insert(target, key, value) ==
    [k \in DOMAIN target \cup {key} |-> IF k = key THEN value ELSE target[k]]

\* the body of the loop without the filter test
merge_entry_unfiltered(target, source, key, sensor_filter) ==
    hash_insert(target, key, source[key])

\* the body of the loop: if filtered { continue } target.insert(..)
merge_entry(target, source, key, sensor_filter) ==
    IF is_some(sensor_filter) /\ is_filtered(key, unwrap(sensor_filter))
    THEN target
    ELSE hash_insert(target, key, source[key])

\* for (key, value) in source { .. }
RECURSIVE apply_entries(_, _, _, _)
apply_entries(target, source, todo, sensor_filter) ==
    IF todo = {} THEN target
    ELSE LET key == CHOOSE k \in todo : TRUE
         IN  apply_entries(merge_entry(target, source, key, sensor_filter),
                           source, todo \ {key}, sensor_filter)

\* the store is replaced by the collected values instead of merged with them
apply_sensor_values_replace(target, source, sensor_filter) ==
    apply_entries(<<>>, source, DOMAIN source, sensor_filter)

apply_sensor_values(target, source, sensor_filter) ==
    apply_entries(target, source, DOMAIN source, sensor_filter)

---------------------------------------------------------------------------
(* Display schedule and the steps of one refresh tick (main.rs)            *)

HoursPerDay == 24

InactiveSleep == 30

DefaultPageTime == 10

\* with only display_on_hour set: active after that hour, not from it
is_display_active_after(c, now_hour) ==
    LET on  == c.setup.display_on_hour
        off == c.setup.display_off_hour
    IN  IF ~is_some(on) /\ ~is_some(off) THEN TRUE
        ELSE IF is_some(on) /\ ~is_some(off) THEN now_hour > unwrap(on)
        ELSE IF ~is_some(on) /\ is_some(off) THEN now_hour < unwrap(off)
        ELSE IF unwrap(on) <= unwrap(off)
             THEN now_hour >= unwrap(on) /\ now_hour < unwrap(off)
             ELSE now_hour >= unwrap(on) \/ now_hour < unwrap(off)

\* with both hours set: the range [on_hour, off_hour) without wrap-around
is_display_active_no_wrap(c, now_hour) ==
    LET on  == c.setup.display_on_hour
        off == c.setup.display_off_hour
    IN  IF ~is_some(on) /\ ~is_some(off) THEN TRUE
        ELSE IF is_some(on) /\ ~is_some(off) THEN now_hour >= unwrap(on)
        ELSE IF ~is_some(on) /\ is_some(off) THEN now_hour < unwrap(off)
        ELSE now_hour >= unwrap(on) /\ now_hour < unwrap(off)

is_display_active(c, now_hour) ==
    LET on  == c.setup.display_on_hour
        off == c.setup.display_off_hour
    IN  IF ~is_some(on) /\ ~is_some(off) THEN TRUE
        ELSE IF is_some(on) /\ ~is_some(off) THEN now_hour >= unwrap(on)
        ELSE IF ~is_some(on) /\ is_some(off) THEN now_hour < unwrap(off)
        ELSE LET on_hour  == unwrap(on)
                 off_hour == unwrap(off)
             IN  IF on_hour <= off_hour
                 THEN now_hour >= on_hour /\ now_hour < off_hour
                 ELSE now_hour >= on_hour \/ now_hour < off_hour

sensor_page_time(c) ==
    IF is_some(c.setup.sensor_page_time) THEN unwrap(c.setup.sensor_page_time)
    ELSE DefaultPageTime

time_page_time(c) ==
    IF is_some(c.setup.time_page_time) THEN unwrap(c.setup.time_page_time)
    ELSE sensor_page_time(c)

page_duration(page, c) ==
    IF page.kind = "Sensor" THEN sensor_page_time(c) ELSE time_page_time(c)

\* the page list is rebuilt at the top of every iteration
rebuild_due_always(idx) == TRUE

\* if page_idx == 0 { .. } (main.rs:271)
rebuild_due(idx) == idx = 0

\* mutant of rebuild_pages: the emptiness test is inverted
rebuild_pages_inverted(old_pages, new_pages) ==
    IF new_pages = <<>> THEN new_pages ELSE old_pages

\* if !new_pages.is_empty() { pages = new_pages } (main.rs:273-275)
rebuild_pages(old_pages, new_pages) ==
    IF new_pages # <<>> THEN new_pages ELSE old_pages

\* if page_idx >= pages.len() { page_idx = 0 } (main.rs:278-280)
clamp_idx(idx, n) == IF idx >= n THEN 0 ELSE idx

\* the index after the last page is not wrapped
next_idx_unwrapped(idx, n) == idx + 1

\* main.rs:379: page_idx = (page_idx + 1) % pages.len()
next_idx(idx, n) == (idx + 1) % n

\* mutant of startup_result: the emptiness of the initial build is not tested
startup_unchecked(first_pages) == "rebuild"

\* if pages.is_empty() { return Err(..) } (main.rs:245-247): where the main
\* thread goes after the initial build
startup_result(first_pages) ==
    IF first_pages = <<>> THEN "exit_err" ELSE "rebuild"

\* mutant of power_step: display_off is not consulted before switching off
power_step_repeat(display_on, doff) ==
    IF ~display_on THEN "off"
    ELSE IF doff THEN "on" ELSE "none"

\* the display command the schedule check asks for (main.rs:319-338)
power_step(display_on, doff) ==
    IF ~display_on THEN (IF ~doff THEN "off" ELSE "none")
    ELSE IF doff THEN "on" ELSE "none"

\* A display command and its result, <<command, ok>>, as the transport
\* reports it.
Issue(cmd, ok) == <<cmd, ok>>

\* mutant of render_and_send: the result of send_image is dropped
render_and_send_unchecked(cmds, doff, render_ok, send_ok) ==
    IF render_ok
    THEN [cmds |-> Append(cmds, Issue("send", send_ok)), render |-> "ok",
          err |-> FALSE, display_off |-> doff]
    ELSE [cmds |-> cmds, render |-> "err", err |-> FALSE, display_off |-> doff]

\* mutant of render_and_send: a render error is returned with "?"
render_and_send_abort(cmds, doff, render_ok, send_ok) ==
    IF render_ok
    THEN [cmds |-> Append(cmds, Issue("send", send_ok)), render |-> "ok",
          err |-> ~send_ok, display_off |-> doff]
    ELSE [cmds |-> cmds, render |-> "err", err |-> TRUE, display_off |-> doff]

\* render the page and send the frame (main.rs:340-361); cmds are the
\* display commands of this tick so far, err is the "?" return
render_and_send(cmds, doff, render_ok, send_ok) ==
    IF render_ok
    THEN [cmds |-> Append(cmds, Issue("send", send_ok)), render |-> "ok",
          err |-> ~send_ok, display_off |-> doff]
    ELSE [cmds |-> cmds, render |-> "err", err |-> FALSE, display_off |-> doff]

\* mutant of tick_outcome: the inactive branch falls through to the render
tick_outcome_fallthrough(display_on, doff, power_ok, render_ok, send_ok) ==
    LET cmd == power_step(display_on, doff)
    IN  IF cmd # "none" /\ ~power_ok
        THEN [cmds |-> <<Issue(cmd, FALSE)>>, render |-> "none", err |-> TRUE,
              display_off |-> doff]
        ELSE render_and_send(
                 IF cmd = "none" THEN <<>> ELSE <<Issue(cmd, TRUE)>>,
                 IF cmd = "on" THEN FALSE
                 ELSE IF cmd = "off" THEN TRUE ELSE doff,
                 render_ok, send_ok)

\* one pass through the body of the refresh loop up to the pacing sleep
\* (main.rs:317-361): the commands sent to the display with their results,
\* the outcome of the render, whether the function returned the error of a
\* command, and the new display_off
tick_outcome(display_on, doff, power_ok, render_ok, send_ok) ==
    LET cmd == power_step(display_on, doff)
    IN  IF cmd # "none" /\ ~power_ok
        THEN [cmds |-> <<Issue(cmd, FALSE)>>, render |-> "none", err |-> TRUE,
              display_off |-> doff]
        ELSE IF ~display_on
        THEN [cmds |-> IF cmd = "none" THEN <<>> ELSE <<Issue(cmd, TRUE)>>,
              render |-> "none", err |-> FALSE,
              display_off |-> IF cmd = "off" THEN TRUE ELSE doff]
        ELSE render_and_send(
                 IF cmd = "none" THEN <<>> ELSE <<Issue(cmd, TRUE)>>,
                 IF cmd = "on" THEN FALSE ELSE doff,
                 render_ok, send_ok)

\* the power state of the panel after the commands of a tick; a command
\* that failed may or may not have reached the panel
RECURSIVE power_after(_, _)
power_after(power, cmds) ==
    IF cmds = <<>> THEN {power}
    ELSE LET cmd    == Head(cmds)[1]
             ok     == Head(cmds)[2]
             target == IF cmd = "send" THEN power ELSE cmd
         IN  IF ok THEN power_after(target, Tail(cmds))
             ELSE UNION {power_after(p, Tail(cmds)) : p \in {power, target}}

\* mutant of elapsed_after: page_start is taken anew in every tick
elapsed_after_restart(el, d, long, cap) == 0

\* the dwell timer stands still over the 30 s sleep of an inactive tick
elapsed_after_paused(el, d, long, cap) ==
    IF d = InactiveSleep THEN el
    ELSE IF long \/ el + d >= cap THEN cap ELSE el + d

\* page_start.elapsed() after a tick that slept for at least d seconds:
\* the tick took d, or so long that every page duration has passed.  The
\* value is kept up to cap, beyond which it decides nothing.
elapsed_after(el, d, long, cap) ==
    IF long \/ el + d >= cap THEN cap ELSE el + d

---------------------------------------------------------------------------
(* Configurations and sensor readings                                      *)

\* "aa", "ab", "b": sensor keys the source reports
LoopKeys == {<<97, 97>>, <<97, 98>>, <<98>>}

\* "1": the sensor value text
SensorTexts == {<<49>>}

\* ^a(.)$ named "X{1}" and ^(.)(.)$ without a name
SensorX ==
    [match_pattern |-> Some(<<97, AnyGroup>>),
     name |-> Some(<<88, LBrace, Digit(1), RBrace>>), item_name |-> None]

SensorAny2 ==
    [match_pattern |-> Some(<<AnyGroup, AnyGroup>>),
     name |-> None, item_name |-> None]

Setup(time_page, on, off, time_secs) ==
    [refresh |-> 5, sensor_page_time |-> None, time_page_time |-> time_secs,
     time_page |-> time_page, display_on_hour |-> on, display_off_hour |-> off]

Config(sensors, filter, setup) ==
    [active_panels |-> <<1>>, panels |-> <<[sensor |-> sensors]>>,
     sensor_filter |-> filter, setup |-> setup]

\* the configurations of the cycle loop: with and without templates,
\* exclusion filter ^b$, time page "T" (shown for the sensor page time or
\* for 40 s) and display schedule (22:00 to 06:00)
LoopConfigs ==
    {Config(sensors, filter, Setup(tp[1], sched[1], sched[2], tp[2])) :
        sensors \in {<<>>, <<SensorX, SensorAny2>>},
        filter \in {None, Some(<<<<98>>>>)},
        tp \in {<<None, None>>, <<Some(<<84>>), None>>,
                <<Some(<<84>>), Some(40)>>},
        sched \in {<<None, None>>, <<Some(22), Some(6)>>}}

\* what one collection of the sensor source yields: values for any of the
\* keys (none at all when the source fails before reporting anything)
Readings(keys) ==
    UNION {[present -> SensorTexts] : present \in SUBSET keys}

\* the log of a step of the main thread outside the refresh loop
NoTick ==
    [schedule |-> "none", cmds |-> <<>>, render |-> "none", err |-> FALSE,
     rebuild |-> "none"]

\* what the rebuild at the top of the cycle loop did to the PageSet
rebuild_kind(idx, old_pages, new_pages) ==
    IF ~rebuild_due(idx) THEN "skipped"
    ELSE IF new_pages = <<>> THEN "kept"
    ELSE IF new_pages = old_pages THEN "same" ELSE "changed"

---------------------------------------------------------------------------
(* The program: run_sensor_panel and the poller thread                     *)

\* RwLock::new: no guard is held
Unlocked == [writer |-> FALSE, readers |-> 0]

\* the collection of a poll tick logged nothing
NoPoll == [update |-> "none", storage |-> "none"]

\* the poller is between two iterations of its loop
StoreRest ==
    /\ raw_sensors = <<>>
    /\ merge_todo = {}
    /\ lock = Unlocked
    /\ poll_log = NoPoll

\* no function is called on its own and the collector tool does not run
ToolRest ==
    /\ call = None
    /\ ret = None
    /\ fs = <<>>
    /\ stream = <<>>

Init ==
    /\ cfg \in LoopConfigs
    /\ sensor_values = <<>>
    /\ hour \in 0..(HoursPerDay - 1)
    /\ screen_power = "on"
    /\ poller = "new"
    /\ pc = "start"
    /\ templates = <<>>
    /\ pages = <<>>
    /\ page_idx = 0
    /\ display_off = FALSE
    /\ elapsed = 0
    /\ tick_log = NoTick
    /\ StoreRest
    /\ ToolRest

\* start_sensor_poller: the initial read, then the thread is spawned
StartPoller ==
    /\ pc = "start"
    /\ \E raw \in Readings(LoopKeys) :
          sensor_values' = apply_sensor_values(sensor_values, raw,
                                               cfg.sensor_filter)
    /\ poller' = "running"
    /\ pc' = "compile"
    /\ UNCHANGED <<cfg, hour, screen_power, templates, pages, page_idx,
                   display_off, elapsed, tick_log>>
    /\ UNCHANGED <<storeVars, callVars, fileVars>>

\* one iteration of the poller thread's loop
PollTick ==
    /\ poller = "running"
    /\ \E raw \in Readings(LoopKeys) :
          sensor_values' = apply_sensor_values(sensor_values, raw,
                                               cfg.sensor_filter)
    /\ UNCHANGED <<cfg, hour, screen_power, poller, pc, templates, pages,
                   page_idx, display_off, elapsed, tick_log>>
    /\ UNCHANGED <<storeVars, callVars, fileVars>>

\* the wall clock reaches the next hour
ClockAdvance ==
    /\ hour' = (hour + 1) % HoursPerDay
    /\ UNCHANGED <<cfg, sensor_values, screen_power, poller, pc, templates,
                   pages, page_idx, display_off, elapsed, tick_log>>
    /\ UNCHANGED <<storeVars, callVars, fileVars>>

\* main.rs:226
Compile ==
    /\ pc = "compile"
    /\ templates' = compile_sensor_templates(cfg)
    /\ pc' = "initial_build"
    /\ UNCHANGED <<cfg, sensor_values, hour, screen_power, poller, pages,
                   page_idx, display_off, elapsed, tick_log>>
    /\ UNCHANGED <<storeVars, callVars, fileVars>>

\* main.rs:243-247: the initial page list, or the error return
InitialBuild ==
    /\ pc = "initial_build"
    /\ \E keys \in hash_orders(DOMAIN sensor_values) :
          /\ pages' = build_pages(templates, keys, cfg)
          /\ pc' = startup_result(pages')
    /\ UNCHANGED <<cfg, sensor_values, hour, screen_power, poller, templates,
                   page_idx, display_off, elapsed, tick_log>>
    /\ UNCHANGED <<storeVars, callVars, fileVars>>

\* main.rs:270-276: the top of the cycle loop
Rebuild ==
    /\ pc = "rebuild"
    /\ \E keys \in hash_orders(DOMAIN sensor_values) :
          LET new_pages == build_pages(templates, keys, cfg)
          IN  /\ pages' = IF rebuild_due(page_idx)
                          THEN rebuild_pages(pages, new_pages) ELSE pages
              /\ tick_log' = [NoTick EXCEPT
                     !.rebuild = rebuild_kind(page_idx, pages, new_pages)]
    /\ pc' = "select"
    /\ UNCHANGED <<cfg, sensor_values, hour, screen_power, poller, templates,
                   page_idx, display_off, elapsed>>
    /\ UNCHANGED <<storeVars, callVars, fileVars>>

\* main.rs:278-307: the current page is selected and its dwell starts
Select ==
    /\ pc = "select"
    /\ page_idx' = clamp_idx(page_idx, Len(pages))
    /\ elapsed' = 0
    /\ pc' = "tick"
    /\ tick_log' = NoTick
    /\ UNCHANGED <<cfg, sensor_values, hour, screen_power, poller, templates,
                   pages, display_off>>
    /\ UNCHANGED <<storeVars, callVars, fileVars>>

\* the longest page duration of the configuration
DwellCap ==
    IF sensor_page_time(cfg) >= time_page_time(cfg)
    THEN sensor_page_time(cfg) ELSE time_page_time(cfg)

\* main.rs:310-379: one iteration of the refresh loop and, when the dwell
\* of the page is over, the advance to the next page
Tick ==
    /\ pc = "tick"
    /\ \E power_ok, render_ok, send_ok, long \in BOOLEAN :
          LET display_on == is_display_active(cfg, hour)
              page       == pages[page_idx + 1]
              outcome    == tick_outcome(display_on, display_off, power_ok,
                                         render_ok, send_ok)
              slept      == IF display_on THEN cfg.setup.refresh
                            ELSE InactiveSleep
              el         == elapsed_after(elapsed, slept, long, DwellCap)
          IN  /\ tick_log' = [schedule |-> IF display_on THEN "active"
                                                         ELSE "inactive",
                              cmds |-> outcome.cmds,
                              render |-> outcome.render,
                              err |-> outcome.err,
                              rebuild |-> "none"]
              /\ screen_power' \in power_after(screen_power, outcome.cmds)
              /\ display_off' = outcome.display_off
              /\ IF outcome.err
                 THEN /\ pc' = "failed"
                      /\ UNCHANGED <<elapsed, page_idx>>
                 ELSE IF el >= page_duration(page, cfg)
                 THEN /\ pc' = "rebuild"
                      /\ elapsed' = el
                      /\ page_idx' = next_idx(page_idx, Len(pages))
                 ELSE /\ pc' = "tick"
                      /\ elapsed' = el
                      /\ UNCHANGED page_idx
    /\ UNCHANGED <<cfg, sensor_values, hour, poller, templates, pages>>
    /\ UNCHANGED <<storeVars, callVars, fileVars>>

Main == StartPoller \/ Compile \/ InitialBuild \/ Rebuild \/ Select \/ Tick

Next == Main \/ PollTick \/ ClockAdvance

Spec == Init /\ [][Next]_vars

---------------------------------------------------------------------------
(* build_pages as a function: every list of up to MaxTemplates templates   *)
(* over every store content and every iteration order of the HashMap       *)

MaxTemplates == 2

\* "a", "aa", "ab", "b", "ba"
BuildKeys == {<<97>>, <<97, 97>>, <<97, 98>>, <<98>>, <<98, 97>>}

\* ^a$ "A", ^a(.)$ "X{1}", ^(.)(.)$ item "{2}{1}", ^(.)$ unnamed, ^b(.)$ "B{1}"
BuildSensors ==
    {[match_pattern |-> Some(<<97>>), name |-> Some(<<65>>),
      item_name |-> None],
     SensorX,
     [match_pattern |-> Some(<<AnyGroup, AnyGroup>>), name |-> None,
      item_name |-> Some(<<LBrace, Digit(2), RBrace, LBrace, Digit(1), RBrace>>)],
     [match_pattern |-> Some(<<AnyGroup>>), name |-> None, item_name |-> None],
     [match_pattern |-> Some(<<98, AnyGroup>>),
      name |-> Some(<<66, LBrace, Digit(1), RBrace>>), item_name |-> None]}

SeqsUpTo(S, n) == UNION {[1..m -> S] : m \in 0..n}

InitBuild ==
    /\ cfg \in {Config(sensors, None, Setup(time_page, None, None, None)) :
                   sensors \in SeqsUpTo(BuildSensors, MaxTemplates),
                   time_page \in {None, Some(<<84>>)}}
    /\ sensor_values \in Readings(BuildKeys)
    /\ templates = compile_sensor_templates(cfg)
    /\ hour = 0
    /\ screen_power = "on"
    /\ poller = "running"
    /\ pc = "build_call"
    /\ pages = <<>>
    /\ page_idx = 0
    /\ display_off = FALSE
    /\ elapsed = 0
    /\ tick_log = NoTick
    /\ StoreRest
    /\ ToolRest

BuildCall ==
    /\ pc = "build_call"
    /\ \E keys \in hash_orders(DOMAIN sensor_values) :
          pages' = build_pages(templates, keys, cfg)
    /\ pc' = "build_ret"
    /\ UNCHANGED <<cfg, sensor_values, hour, screen_power, poller, templates,
                   page_idx, display_off, elapsed, tick_log>>
    /\ UNCHANGED <<storeVars, callVars, fileVars>>

SpecBuild == InitBuild /\ [][BuildCall]_vars

\* the templates (by position) whose pattern matches the key
Matching(key) ==
    {t \in 1..Len(templates) : is_match(templates[t].regex, key)}

\* the positions of the sensor pages of the key
PagesOf(key) ==
    {i \in DOMAIN pages :
        pages[i].kind = "Sensor" /\ pages[i].sensor_key = key}

FirstMatching(key) ==
    CHOOSE t \in Matching(key) : \A u \in Matching(key) : t <= u

\* C1: in the PageSet a build returns, each sensor key appears in at most
\* one SensorPage, also when several templates match the key.
C1_KeyInAtMostOnePage ==
    pc = "build_ret" =>
        \A i, j \in DOMAIN pages :
            (i # j /\ pages[i].kind = "Sensor" /\ pages[j].kind = "Sensor")
                => pages[i].sensor_key # pages[j].sensor_key

\* C1 witness: a build returned a page for a key that two templates match
C1_Witness ==
    /\ pc = "build_ret"
    /\ \E key \in DOMAIN sensor_values :
          Cardinality(Matching(key)) >= 2 /\ PagesOf(key) # {}

\* C2: a key of the snapshot that matches a template gets exactly one
\* SensorPage, carrying the earliest matching template; a key that matches
\* no template gets no page; no page is for a key outside the snapshot.
C2_FirstMatchWins ==
    pc = "build_ret" =>
        /\ \A key \in DOMAIN sensor_values :
              IF Matching(key) = {} THEN PagesOf(key) = {}
              ELSE /\ Cardinality(PagesOf(key)) = 1
                   /\ \A i \in PagesOf(key) :
                         pages[i].template
                            = templates[FirstMatching(key)].sensor
        /\ \A i \in DOMAIN pages :
              pages[i].kind = "Sensor"
                 => pages[i].sensor_key \in DOMAIN sensor_values

\* C2 witness: a build returned while one key matched two different
\* templates and another key matched none
C2_Witness ==
    /\ pc = "build_ret"
    /\ \E key \in DOMAIN sensor_values :
          /\ \E t, u \in Matching(key) :
                templates[t].sensor # templates[u].sensor
          /\ PagesOf(key) # {}
    /\ \E key \in DOMAIN sensor_values : Matching(key) = {}

\* C3: sensor pages are ordered by template position, then by ascending
\* key; exactly one TimePage is present, as the last element, when a time
\* page is configured and none otherwise; and the sequence is the same for
\* every iteration order of the store.
C3_Ordered ==
    pc = "build_ret" =>
        /\ \A i, j \in DOMAIN pages :
              (i < j /\ pages[i].kind = "Sensor" /\ pages[j].kind = "Sensor")
                 => LET ti == FirstMatching(pages[i].sensor_key)
                        tj == FirstMatching(pages[j].sensor_key)
                    IN  \/ ti < tj
                        \/ /\ ti = tj
                           /\ str_lt(pages[i].sensor_key, pages[j].sensor_key)
        /\ \A i \in DOMAIN pages :
              pages[i].kind = "Time"
                 => /\ i = Len(pages)
                    /\ cfg.setup.time_page = Some(pages[i].label)
        /\ is_some(cfg.setup.time_page)
              => pages # <<>> /\ pages[Len(pages)].kind = "Time"
        /\ \A keys \in hash_orders(DOMAIN sensor_values) :
              build_pages(templates, keys, cfg) = pages

\* C3 witness: a build returned two pages of one template, pages of two
\* templates and the time page
C3_Witness ==
    /\ pc = "build_ret"
    /\ is_some(cfg.setup.time_page)
    /\ \E i, j \in DOMAIN pages :
          /\ i < j /\ pages[i].kind = "Sensor" /\ pages[j].kind = "Sensor"
          /\ pages[i].template = pages[j].template
    /\ \E i, j \in DOMAIN pages :
          /\ i < j /\ pages[i].kind = "Sensor" /\ pages[j].kind = "Sensor"
          /\ pages[i].template # pages[j].template

---------------------------------------------------------------------------
(* The cycle loop                                                          *)

InLoop == {"rebuild", "select", "tick"}

\* what build_pages returns for the store as it is now
SnapshotBuild ==
    build_pages(templates, CHOOSE keys \in hash_orders(DOMAIN sensor_values) : TRUE,
                cfg)

\* the display commands of the last tick
Issued == {tick_log.cmds[i][1] : i \in DOMAIN tick_log.cmds}

\* a step of the main thread that runs one iteration of the refresh loop
TickStep == pc = "tick" /\ <<pc, elapsed>>' # <<pc, elapsed>>

\* C4: a rebuild that returns an empty PageSet leaves the active PageSet
\* unchanged and one that returns a non-empty PageSet replaces it, so the
\* active PageSet is non-empty in every state of the loop.
C4_KeepPreviousPages ==
    /\ [][(pc = "rebuild" /\ pc' = "select" /\ page_idx = 0)
             => pages' = IF SnapshotBuild = <<>> THEN pages
                         ELSE SnapshotBuild]_vars
    /\ [](pc \in InLoop \cup {"failed"}
             => pages # <<>> /\ rebuild_pages(pages, <<>>) = pages)

\* C4 witness: a rebuild at index 0 replaced the PageSet by a different one
C4_Witness ==
    /\ pc = "select"
    /\ tick_log.rebuild = "changed"
    /\ pages = SnapshotBuild

\* C5: when the initial build returns an empty PageSet, run_sensor_panel
\* returns an error, the cycle loop is not entered, and no page is rendered
\* and no display command is issued.
C5_EmptyStartupIsFatal ==
    /\ [][(pc = "initial_build" /\ pc' # pc)
             => /\ pc' \in {"exit_err", "rebuild"}
                /\ pc' = "exit_err" <=> SnapshotBuild = <<>>]_vars
    /\ [](pc = "exit_err"
             => /\ pages = <<>>
                /\ tick_log = NoTick
                /\ screen_power = "on" /\ ~display_off)
    /\ [][pc = "exit_err" => pc' = "exit_err"]_vars

\* C5 witness: the error return, with sensor keys in the store and
\* templates compiled, none of which matches
C5_Witness ==
    /\ pc = "exit_err"
    /\ DOMAIN sensor_values # {}
    /\ templates # <<>>

\* C6: a tick issues display-off exactly when the schedule is inactive and
\* the display was not switched off by the loop, and display-on exactly when
\* the schedule is active and the display was switched off; an off goes to a
\* panel that is on and an on to a panel that is off, so the two alternate,
\* starting with off; no other step issues a command.
C6_PowerCommandsAlternate ==
    /\ [][TickStep
             => LET active == is_display_active(cfg, hour)
                    issued == {tick_log'.cmds[i][1] :
                                  i \in DOMAIN tick_log'.cmds}
                    power  == {i \in DOMAIN tick_log'.cmds :
                                  tick_log'.cmds[i][1] \in {"off", "on"}}
                IN  /\ "off" \in issued <=> (~active /\ ~display_off)
                    /\ "on" \in issued <=> (active /\ display_off)
                    /\ Cardinality(power) <= 1
                    /\ "off" \in issued => screen_power = "on"
                    /\ "on" \in issued => screen_power = "off"
                    /\ ~tick_log'.err => display_off' = ~active]_vars
    /\ [][(tick_log' # tick_log /\ tick_log'.cmds # <<>>) => TickStep]_vars
    /\ [](pc \in InLoop => (display_off <=> screen_power = "off"))

\* C6 witness: on a later page of the cycle a tick found the schedule still
\* inactive, issued nothing and the refresh loop of the page goes on
C6_Witness ==
    /\ pc = "tick"
    /\ page_idx > 0
    /\ tick_log.schedule = "inactive"
    /\ tick_log.cmds = <<>>
    /\ display_off

\* C7: a tick that finds the schedule inactive neither renders nor sends;
\* a frame is sent only on a tick that finds the schedule active, as the
\* last command of the tick, after the display-on if one was due, with
\* display_off cleared and the panel on.
C7_NoFrameWhileInactive ==
    /\ tick_log.schedule = "inactive"
          => tick_log.render = "none" /\ "send" \notin Issued
    /\ "send" \in Issued
          => /\ tick_log.schedule = "active"
             /\ tick_log.cmds[Len(tick_log.cmds)][1] = "send"
             /\ \A i \in DOMAIN tick_log.cmds :
                   tick_log.cmds[i][1] = "send" => i = Len(tick_log.cmds)
             /\ ~display_off
             /\ screen_power = "on"

\* C7 witness: a tick found the schedule inactive and switched the display
\* off
C7_Witness ==
    /\ tick_log.schedule = "inactive"
    /\ tick_log.cmds = <<Issue("off", TRUE)>>

\* C8: when a display command fails, it is the last thing the tick does
\* (nothing is rendered or sent after it), run_sensor_panel returns the
\* error, and the main thread does nothing further.
C8_TransportFailureTerminates ==
    /\ [](\A i \in DOMAIN tick_log.cmds :
             ~tick_log.cmds[i][2]
                => /\ i = Len(tick_log.cmds)
                   /\ pc = "failed"
                   /\ tick_log.cmds[i][1] # "send" => tick_log.render = "none")
    /\ [](pc = "failed"
             => \E i \in DOMAIN tick_log.cmds : ~tick_log.cmds[i][2])
    /\ [][pc = "failed"
             => UNCHANGED <<pc, tick_log, screen_power, display_off, pages,
                            page_idx, elapsed>>]_vars

\* C8 witness: the frame could not be sent after the display was switched on
C8_Witness ==
    /\ pc = "failed"
    /\ tick_log.cmds = <<Issue("on", TRUE), Issue("send", FALSE)>>

\* C9: on a tick whose render fails no frame is sent, the loop goes on, the
\* PageSet is unchanged, display_off and the panel are as the schedule check
\* left them, and pageIndex advances exactly when the dwell of the page is
\* over, as on any other tick.
C9_RenderFailureSkipsFrame ==
    [][(TickStep /\ tick_log'.render = "err")
          => /\ \A i \in DOMAIN tick_log'.cmds : tick_log'.cmds[i][1] = "on"
             /\ pc' \in {"tick", "rebuild"}
             /\ pages' = pages
             /\ ~display_off' /\ screen_power' = "on"
             /\ pc' = "rebuild"
                   <=> elapsed' >= page_duration(pages[page_idx + 1], cfg)
             /\ page_idx' = IF pc' = "rebuild"
                            THEN (page_idx + 1) % Len(pages) ELSE page_idx]_vars

\* C9 witness: the render failed and the refresh loop of the page goes on
C9_Witness ==
    /\ pc = "tick"
    /\ tick_log.render = "err"
    /\ tick_log.cmds = <<>>

---------------------------------------------------------------------------
(* Progress of the cycle loop, for the configuration with both templates,  *)
(* the exclusion filter, the time page and the display schedule.  The main *)
(* thread is scheduled: a step of it that stays possible is eventually     *)
(* taken.  Nothing is assumed of the poller thread or of the clock.        *)

InitLive ==
    /\ Init
    /\ cfg = Config(<<SensorX, SensorAny2>>, Some(<<<<98>>>>),
                    Setup(Some(<<84>>), Some(22), Some(6), None))

LiveSpec == InitLive /\ [][Next]_vars /\ WF_vars(Main)

\* the refresh loop of a page ends and pageIndex is advanced (main.rs:379)
Advance == pc = "tick" /\ pc' = "rebuild"

\* C10: unless a display command fails (or the startup found no page),
\* pageIndex is advanced infinitely often, whatever the sensor source and
\* the renderer do.
C10_CyclingNeverStops ==
    \/ <>[](pc \in {"failed", "exit_err"})
    \/ []<><<Advance>>_vars

\* C10 witness: pageIndex was advanced at the end of a tick whose render
\* failed, after the page list was rebuilt at least once
C10_Witness ==
    /\ pc = "rebuild"
    /\ tick_log.render = "err"
    /\ page_idx > 0

---------------------------------------------------------------------------
(* The store under its RwLock: the poller thread entry by entry, and the   *)
(* reads of the cycle loop (sensors.rs:103-129, main.rs:286-291, 342, 429) *)

\* the locals of the cycle loop, which the steps below leave alone
loopVars == <<hour, screen_power, templates, pages, page_idx, display_off,
              elapsed, tick_log>>

\* the cycle loop is not part of the run
LoopRest ==
    /\ screen_power = "on"
    /\ templates = <<>>
    /\ pages = <<>>
    /\ page_idx = 0
    /\ display_off = FALSE
    /\ elapsed = 0
    /\ tick_log = NoTick

\* RwLock::read blocks while a writer holds the lock
can_read(l) == ~l.writer

\* RwLock::write granted although a reader holds the lock
can_write_shared(l) == ~l.writer

\* RwLock::write blocks while a writer or any reader holds the lock
can_write(l) == ~l.writer /\ l.readers = 0

\* SysinfoSource::update_sensors: a failed collection adds no entry
update_sensors(raw, ok, reading) ==
    IF ok THEN [k \in DOMAIN raw \cup DOMAIN reading |->
                   IF k \in DOMAIN reading THEN reading[k] ELSE raw[k]]
    ELSE raw

\* update_linux_storage_sensors: a failed refresh adds no entry
update_linux_storage_sensors(raw, ok, reading) ==
    IF ok THEN [k \in DOMAIN raw \cup DOMAIN reading |->
                   IF k \in DOMAIN reading THEN reading[k] ELSE raw[k]]
    ELSE raw

\* the storage refresh runs on every tick, due or not
collect_storage_always(ok, reading, due, disk_ok, disk) ==
    update_linux_storage_sensors(update_sensors(<<>>, ok, reading),
                                 disk_ok, disk)

\* sensors.rs:107-118: raw_sensors of one iteration
collect(ok, reading, due, disk_ok, disk) ==
    LET primary == update_sensors(<<>>, ok, reading)
    IN  IF due THEN update_linux_storage_sensors(primary, disk_ok, disk)
        ELSE primary

\* keys of the storage sensors ("d")
StorageKeys == {<<100>>}

\* the places where the cycle loop takes the read guard
ReadSites == {"build_read", "lookup_read", "render_read"}

\* no filter, the filter ^b$, the filters ^b$ and ^ab$
StoreConfigs ==
    {Config(<<SensorX>>, filter, Setup(None, None, None, None)) :
        filter \in {None, Some(<<<<98>>>>), Some(<<<<98>>, <<97, 98>>>>)}}

\* sensors.rs:84-91: start_sensor_poller has collected the raw values of
\* the initial read; main.rs:226: the templates
InitStore ==
    /\ cfg \in StoreConfigs
    /\ sensor_values = <<>>
    /\ \E ok, disk_ok \in BOOLEAN :
       \E reading \in Readings(LoopKeys), disk \in Readings(StorageKeys) :
          raw_sensors = collect(ok, reading, TRUE, disk_ok, disk)
    /\ poller = "new"
    /\ pc = "read"
    /\ templates = compile_sensor_templates(cfg)
    /\ hour = 0
    /\ screen_power = "on"
    /\ pages = <<>>
    /\ page_idx = 0
    /\ display_off = FALSE
    /\ elapsed = 0
    /\ tick_log = NoTick
    /\ merge_todo = {}
    /\ lock = Unlocked
    /\ poll_log = NoPoll
    /\ ToolRest

\* sensors.rs:93-99: the merge of the initial read, before the thread is
\* spawned and before the cycle loop reads
InitialMerge ==
    /\ poller = "new"
    /\ sensor_values' = apply_sensor_values(sensor_values, raw_sensors,
                                            cfg.sensor_filter)
    /\ raw_sensors' = <<>>
    /\ poller' = "running"
    /\ UNCHANGED <<cfg, pc, merge_todo, lock, poll_log, loopVars, callVars,
                   fileVars>>

\* sensors.rs:106-118: refresh and collect the raw values of this tick
Collect ==
    /\ poller = "running"
    /\ \E ok, due, disk_ok \in BOOLEAN :
       \E reading \in Readings(LoopKeys), disk \in Readings(StorageKeys) :
          /\ raw_sensors' = collect(ok, reading, due, disk_ok, disk)
          /\ poll_log' = [update  |-> IF ok THEN "ok" ELSE "failed",
                          storage |-> IF ~due THEN "none"
                                      ELSE IF disk_ok THEN "ok"
                                      ELSE "failed"]
    /\ poller' = "collected"
    /\ UNCHANGED <<cfg, sensor_values, pc, merge_todo, lock, loopVars,
                   callVars, fileVars>>

\* sensors.rs:121: values.write()
WriteLock ==
    /\ poller = "collected"
    /\ can_write(lock)
    /\ lock' = [lock EXCEPT !.writer = TRUE]
    /\ merge_todo' = DOMAIN raw_sensors
    /\ poller' = "merging"
    /\ UNCHANGED <<cfg, sensor_values, pc, raw_sensors, poll_log, loopVars,
                   callVars, fileVars>>

\* sensors.rs:140-147: one iteration of the loop of apply_sensor_values,
\* in the order the HashMap yields its entries
MergeEntry ==
    /\ poller = "merging"
    /\ \E key \in merge_todo :
          /\ sensor_values' = merge_entry(sensor_values, raw_sensors, key,
                                          cfg.sensor_filter)
          /\ merge_todo' = merge_todo \ {key}
    /\ UNCHANGED <<cfg, poller, pc, raw_sensors, lock, poll_log, loopVars,
                   callVars, fileVars>>

\* sensors.rs:123-128: the guard and raw_sensors are dropped, then the
\* pacing sleep
WriteUnlock ==
    /\ poller = "merging"
    /\ merge_todo = {}
    /\ lock' = [lock EXCEPT !.writer = FALSE]
    /\ raw_sensors' = <<>>
    /\ poller' = "running"
    /\ UNCHANGED <<cfg, sensor_values, pc, merge_todo, poll_log, loopVars,
                   callVars, fileVars>>

\* main.rs:286, 342, 429: sensor_values.read()
ReadLock ==
    /\ pc = "read"
    /\ poller # "new"
    /\ can_read(lock)
    /\ lock' = [lock EXCEPT !.readers = @ + 1]
    /\ pc' \in ReadSites
    /\ UNCHANGED <<cfg, sensor_values, poller, raw_sensors, merge_todo,
                   poll_log, loopVars, callVars, fileVars>>

\* main.rs:291, 343: the read guard is dropped
ReadUnlock ==
    /\ pc \in ReadSites \ {"build_read"}
    /\ lock' = [lock EXCEPT !.readers = @ - 1]
    /\ pc' = "read"
    /\ UNCHANGED <<cfg, sensor_values, poller, raw_sensors, merge_todo,
                   poll_log, loopVars, callVars, fileVars>>

\* main.rs:430-466: build_pages from the keys it read under the guard
BuildUnlock ==
    /\ pc = "build_read"
    /\ \E keys \in hash_orders(DOMAIN sensor_values) :
          pages' = build_pages(templates, keys, cfg)
    /\ lock' = [lock EXCEPT !.readers = @ - 1]
    /\ pc' = "read"
    /\ UNCHANGED <<cfg, sensor_values, poller, raw_sensors, merge_todo,
                   poll_log, hour, screen_power, templates, page_idx,
                   display_off, elapsed, tick_log, callVars, fileVars>>

NextStore ==
    \/ InitialMerge
    \/ Collect \/ WriteLock \/ MergeEntry \/ WriteUnlock
    \/ ReadLock \/ ReadUnlock \/ BuildUnlock

SpecStore == InitStore /\ [][NextStore]_vars

\* the keys of this tick's raw values that the merge inserts
Unfiltered ==
    {k \in DOMAIN raw_sensors :
        ~(is_some(cfg.sensor_filter)
          /\ is_filtered(k, unwrap(cfg.sensor_filter)))}

\* the running merge has inserted some but not all of its entries
PartialMerge ==
    /\ poller = "merging"
    /\ Unfiltered \ merge_todo # {}
    /\ Unfiltered \cap merge_todo # {}

\* C11: whenever the cycle loop holds the read guard (page build, value
\* lookup or render), no merge is running, so the store it reads holds
\* none or all of the unfiltered entries of every poll tick's merge; a
\* writer never shares the lock with a reader.
C11_NoPartialMerge ==
    /\ pc \in ReadSites => lock.readers = 1 /\ poller # "merging"
                            /\ ~PartialMerge
    /\ poller = "merging" => lock.writer /\ lock.readers = 0
    /\ ~(lock.writer /\ lock.readers > 0)

\* a read is in progress while the poller waits with two entries to merge,
\* and the store already holds a complete earlier merge
C11_Witness ==
    /\ pc \in ReadSites
    /\ poller = "collected"
    /\ Cardinality(Unfiltered) >= 2
    /\ Cardinality(DOMAIN sensor_values) >= 2

---------------------------------------------------------------------------
(* apply_sensor_values on its own: a merge per poll tick, over stores and  *)
(* raw values with two value texts (sensors.rs:135-148)                    *)

\* "1" and "2"
MergeTexts == {<<49>>, <<50>>}

MergeReadings == UNION {[present -> MergeTexts] : present \in SUBSET LoopKeys}

InitMerge ==
    /\ cfg \in StoreConfigs
    /\ \E first \in MergeReadings :
          sensor_values = apply_sensor_values(<<>>, first, cfg.sensor_filter)
    /\ raw_sensors \in MergeReadings
    /\ poller = "collected"
    /\ pc = "read"
    /\ hour = 0
    /\ merge_todo = {}
    /\ lock = Unlocked
    /\ poll_log = NoPoll
    /\ LoopRest
    /\ ToolRest

\* sensors.rs:120-123: the merge of one tick; call keeps its arguments
Merge ==
    /\ poller = "collected"
    /\ call' = Some([target |-> sensor_values, source |-> raw_sensors])
    /\ sensor_values' = apply_sensor_values(sensor_values, raw_sensors,
                                            cfg.sensor_filter)
    /\ poller' = "merged"
    /\ UNCHANGED <<cfg, pc, raw_sensors, merge_todo, lock, poll_log, ret,
                   loopVars, fileVars>>

\* sensors.rs:106-118: the raw values of the next tick
MergeCollect ==
    /\ poller = "merged"
    /\ raw_sensors' \in MergeReadings
    /\ call' = None
    /\ poller' = "collected"
    /\ UNCHANGED <<cfg, sensor_values, pc, merge_todo, lock, poll_log, ret,
                   loopVars, fileVars>>

SpecMerge == InitMerge /\ [][Merge \/ MergeCollect]_vars

\* the key matches a configured filter pattern
Filtered(k) ==
    is_some(cfg.sensor_filter) /\ is_filtered(k, unwrap(cfg.sensor_filter))

\* C12: after a merge of raw into the store, every unfiltered key of raw
\* holds raw's value, every other key of the old store is still there with
\* its old value, and the store has no key that is neither an old key nor
\* an unfiltered key of raw (a filtered key of raw is not created); so the
\* key set never shrinks.
C12_MergeFrame ==
    poller = "merged" =>
        LET old == unwrap(call).target
            raw == unwrap(call).source
            new == sensor_values
        IN  /\ \A k \in DOMAIN raw :
                  ~Filtered(k) => k \in DOMAIN new /\ new[k] = raw[k]
            /\ \A k \in DOMAIN old :
                  /\ k \in DOMAIN new
                  /\ (k \notin DOMAIN raw \/ Filtered(k)) => new[k] = old[k]
            /\ \A k \in DOMAIN new :
                  k \in DOMAIN old \/ (k \in DOMAIN raw /\ ~Filtered(k))
            /\ DOMAIN old \subseteq DOMAIN new

\* a merge that overwrote one key, created another, kept a third key that
\* raw does not hold, or skipped a filtered key of raw
C12_Witness ==
    /\ poller = "merged"
    /\ LET old == unwrap(call).target
           raw == unwrap(call).source
       IN  /\ \E k \in DOMAIN old \cap DOMAIN raw :
                 old[k] # raw[k] /\ sensor_values[k] = raw[k]
           /\ \E k \in DOMAIN raw : Filtered(k) /\ k \notin DOMAIN sensor_values
           /\ \E k \in DOMAIN old : k \notin DOMAIN raw

\* the pages built from the store name these keys
PageKeys ==
    {pages[i].sensor_key : i \in {j \in DOMAIN pages : pages[j].kind = "Sensor"}}

\* a template of the configuration matches the key
Templated(k) == \E i \in DOMAIN templates : is_match(templates[i].regex, k)

\* C13 (checked under SpecStore): no key of the store, hence of any
\* snapshot read for a page build, and no key of a built page matches a
\* configured filter pattern; with an empty filter list no key is filtered.
C13_NoFilteredKey ==
    /\ \A k \in DOMAIN sensor_values : ~Filtered(k)
    /\ \A k \in PageKeys : ~Filtered(k)
    /\ \A k \in LoopKeys \cup StorageKeys : ~is_filtered(k, <<>>)

\* a tick's merge is complete, its raw values held a filtered key that a
\* template matches, and pages had been built from the store before
C13_Witness ==
    /\ poller = "merging"
    /\ merge_todo = {}
    /\ \E k \in DOMAIN raw_sensors :
          Filtered(k) /\ Templated(k) /\ k \notin DOMAIN sensor_values
    /\ PageKeys # {}

\* the collection of the running or last poll tick failed
UpdateFailed == poll_log.update = "failed"

\* C14 as stated (checked under SpecStore): from a failed collection to
\* the next tick's collection no step changes the store.
C14_FailedTickIsNoOp ==
    [][UpdateFailed => sensor_values' = sensor_values]_vars

\* C14, amended: after a failed collection the poller goes on (it takes
\* the write lock, finishes the merge and the next tick's collection is
\* enabled); the tick leaves the store unchanged unless the storage
\* refresh ran successfully on the same tick, and then only storage
\* sensor keys change.
C14_FailedTickKeepsStore ==
    /\ [](UpdateFailed => /\ poller \in {"collected", "merging", "running"}
                          /\ poller = "running" => ENABLED Collect)
    /\ [][UpdateFailed =>
            /\ poll_log.storage # "ok" => sensor_values' = sensor_values
            /\ \A k \in DOMAIN sensor_values' \ StorageKeys :
                  /\ k \in DOMAIN sensor_values
                  /\ sensor_values'[k] = sensor_values[k]
            /\ DOMAIN sensor_values \subseteq DOMAIN sensor_values']_vars

\* a tick whose collection failed and whose storage refresh did not run
\* or failed has completed, over a store that holds values
C14_Witness ==
    /\ UpdateFailed
    /\ poll_log.storage # "ok"
    /\ poller = "running"
    /\ sensor_values # <<>>

---------------------------------------------------------------------------
(* is_display_active on its own, over every hour of the day and every      *)
(* configuration of the two schedule hours (main.rs:495-511)               *)

Hours == 0..(HoursPerDay - 1)

OptionalHours == {None} \cup {Some(h) : h \in Hours}

ScheduleConfigs ==
    {Config(<<>>, None, Setup(None, on, off, None)) :
        on \in OptionalHours, off \in OptionalHours}

InitSchedule ==
    /\ cfg \in ScheduleConfigs
    /\ hour \in Hours
    /\ pc = "schedule_call"
    /\ sensor_values = <<>>
    /\ poller = "new"
    /\ LoopRest
    /\ StoreRest
    /\ ToolRest

\* main.rs:311: let display_on = is_display_active(&cfg)
ScheduleCall ==
    /\ pc = "schedule_call"
    /\ ret' = Some(is_display_active(cfg, hour))
    /\ pc' = "schedule_ret"
    /\ UNCHANGED <<cfg, sensor_values, poller, loopVars, storeVars, call,
                   fileVars>>

SpecSchedule == InitSchedule /\ [][ScheduleCall]_vars

\* C15: with neither hour configured the display is active at every hour;
\* with only display_on_hour it is active iff hour >= on; with only
\* display_off_hour it is active iff hour < off.
C15_OneBound ==
    pc = "schedule_ret" =>
        LET on     == cfg.setup.display_on_hour
            off    == cfg.setup.display_off_hour
            active == unwrap(ret)
        IN  /\ ~is_some(on) /\ ~is_some(off) => active
            /\ is_some(on) /\ ~is_some(off) => (active <=> hour >= unwrap(on))
            /\ ~is_some(on) /\ is_some(off) => (active <=> hour < unwrap(off))

\* hour 9 with on = 8 alone is active (and hour 5 is not, by C15_OneBound)
C15_Witness ==
    /\ pc = "schedule_ret"
    /\ cfg.setup.display_on_hour = Some(8)
    /\ cfg.setup.display_off_hour = None
    /\ hour = 9
    /\ ret = Some(TRUE)

\* the hours from on up to, not including, off, walking round the clock
CyclicRange(on, off) ==
    {(on + d) % HoursPerDay :
        d \in {e \in Hours : e < (off + HoursPerDay - on) % HoursPerDay}}

\* C16: with both hours configured, on <= off gives active exactly when
\* on <= hour < off (never when on = off), and on > off gives active
\* exactly when hour >= on or hour < off; in both cases the active hours
\* are those walked from on round the clock up to off.
C16_BothBounds ==
    pc = "schedule_ret" /\ is_some(cfg.setup.display_on_hour)
                       /\ is_some(cfg.setup.display_off_hour) =>
        LET on     == unwrap(cfg.setup.display_on_hour)
            off    == unwrap(cfg.setup.display_off_hour)
            active == unwrap(ret)
        IN  /\ on <= off => (active <=> on <= hour /\ hour < off)
            /\ on = off => ~active
            /\ on > off => (active <=> hour >= on \/ hour < off)
            /\ active <=> hour \in CyclicRange(on, off)

\* on = 22, off = 6: the display is active at hour 3
C16_Witness ==
    /\ pc = "schedule_ret"
    /\ cfg.setup.display_on_hour = Some(22)
    /\ cfg.setup.display_off_hour = Some(6)
    /\ hour = 3
    /\ ret = Some(TRUE)

---------------------------------------------------------------------------
(* compile_sensor_templates on its own, over panels whose sensors have     *)
(* valid, invalid and missing patterns (main.rs:400-420)                   *)

MaxPanelSensors == 2

MaxActive == 3

\* ^b($ (invalid) and a sensor without match_pattern
SensorBad ==
    [match_pattern |-> Some(<<98, BadParen>>), name |-> None,
     item_name |-> None]

SensorPlain ==
    [match_pattern |-> None, name |-> Some(<<80>>), item_name |-> None]

CompileSensors == {SensorX, SensorAny2, SensorBad, SensorPlain}

\* two panels; active_panels may name panel 0 and panel 3, which do not exist
CompileConfigs ==
    {[active_panels |-> active,
      panels |-> <<[sensor |-> first], [sensor |-> <<SensorBad, SensorAny2>>]>>,
      sensor_filter |-> None,
      setup |-> Setup(None, None, None, None)] :
        active \in SeqsUpTo(0..3, MaxActive),
        first \in SeqsUpTo(CompileSensors, MaxPanelSensors)}

InitCompile ==
    /\ cfg \in CompileConfigs
    /\ pc = "compile"
    /\ sensor_values = <<>>
    /\ poller = "running"
    /\ hour = 0
    /\ LoopRest
    /\ StoreRest
    /\ ToolRest

SpecCompile == InitCompile /\ [][Compile]_vars

\* the sensors of the active panels that exist, in configured order
RECURSIVE ConfiguredSensors(_)
ConfiguredSensors(active_panels) ==
    IF active_panels = <<>> THEN <<>>
    ELSE (IF Head(active_panels) \in DOMAIN cfg.panels
          THEN cfg.panels[Head(active_panels)].sensor ELSE <<>>)
         \o ConfiguredSensors(Tail(active_panels))

\* the sensor has a pattern and the pattern compiles
Compilable(sensor) ==
    /\ is_some(sensor.match_pattern)
    /\ is_some(Regex_new(unwrap(sensor.match_pattern)))

\* C17: compilation always returns, and its result is the list of the
\* configured sensors of the active panels that have a pattern which
\* compiles, in configured order, each with its compiled pattern; sensors
\* with an invalid pattern or without a pattern are left out and change
\* nothing else.
C17_PartialTolerant ==
    /\ pc \in {"compile", "initial_build"}
    /\ pc = "initial_build" =>
          LET kept == SelectSeq(ConfiguredSensors(cfg.active_panels),
                                Compilable)
          IN  templates =
                  [i \in 1..Len(kept) |->
                      [regex  |-> unwrap(Regex_new(unwrap(kept[i].match_pattern))),
                       sensor |-> kept[i]]]

\* a panel with an invalid pattern before a valid one was compiled, with a
\* sensor without pattern in the other panel and a panel number that does
\* not exist (panel 0)
C17_Witness ==
    /\ pc = "initial_build"
    /\ cfg.active_panels = <<0, 2, 1>>
    /\ cfg.panels[1].sensor = <<SensorPlain, SensorX>>
    /\ Len(templates) = 2

---------------------------------------------------------------------------
(* expand_template_name on its own, over names with placeholders and       *)
(* capture groups whose text may itself hold braces (main.rs:468-485)      *)

MaxGroups == 2

\* a group that did not participate, the text "2" and the text "{2}"
CapTexts == {None, Some(<<Digit(2)>>), Some(<<LBrace, Digit(2), RBrace>>)}

\* ten groups, group i with the text of the digit i mod 10
TenGroups == [i \in 1..10 |-> Some(<<Digit(i % 10)>>)]

\* "X{1}", "{1}{2}" and "{10}"
ExpandNames ==
    {None,
     Some(<<88, LBrace, Digit(1), RBrace>>),
     Some(<<LBrace, Digit(1), RBrace, LBrace, Digit(2), RBrace>>),
     Some(<<LBrace, Digit(1), Digit(0), RBrace>>)}

\* "I{2}"
ExpandItemNames == {None, Some(<<73, LBrace, Digit(2), RBrace>>)}

ExpandCalls ==
    {[sensor |-> [match_pattern |-> Some(<<AnyGroup, AnyGroup>>),
                  name |-> name, item_name |-> item_name],
      caps |-> caps] :
        name \in ExpandNames, item_name \in ExpandItemNames,
        caps \in SeqsUpTo(CapTexts, MaxGroups) \cup {TenGroups}}

InitExpand ==
    /\ call \in {Some(c) : c \in ExpandCalls}
    /\ ret = None
    /\ fs = <<>>
    /\ stream = <<>>
    /\ pc = "expand_call"
    /\ cfg = Config(<<>>, None, Setup(None, None, None, None))
    /\ sensor_values = <<>>
    /\ poller = "running"
    /\ hour = 0
    /\ LoopRest
    /\ StoreRest

\* main.rs:445: let display_name = expand_template_name(&tmpl.sensor, &caps)
ExpandCall ==
    /\ pc = "expand_call"
    /\ ret' = Some(expand_template_name(unwrap(call).sensor, unwrap(call).caps))
    /\ pc' = "expand_ret"
    /\ UNCHANGED <<cfg, sensor_values, poller, loopVars, storeVars, call,
                   fileVars>>

SpecExpand == InitExpand /\ [][ExpandCall]_vars

\* the name string of a sensor: name, else item_name, else "Sensor"
NameString(sensor) ==
    IF is_some(sensor.name) THEN unwrap(sensor.name)
    ELSE IF is_some(sensor.item_name) THEN unwrap(sensor.item_name)
    ELSE GenericLabel

\* the name with each of its placeholders {1}..{9} whose group has a text
\* replaced by that text, in one pass over the name
RECURSIVE Substituted(_, _)
Substituted(name, caps) ==
    IF name = <<>> THEN <<>>
    ELSE IF /\ Len(name) >= 3
            /\ name[1] = LBrace
            /\ name[3] = RBrace
            /\ name[2] \in {Digit(i) : i \in 1..9}
            /\ is_some(caps_get(caps, name[2] - Digit(0)))
         THEN unwrap(caps_get(caps, name[2] - Digit(0)))
              \o Substituted(SubSeq(name, 4, Len(name)), caps)
         ELSE <<Head(name)>> \o Substituted(Tail(name), caps)

\* C18: the display name is the sensor's name string (name, else
\* item_name, else "Sensor") with each placeholder {i}, 1 <= i <= 9,
\* replaced by the text of capture group i; {10} stays literal.
C18_ExpandsPlaceholders ==
    pc = "expand_ret" =>
        unwrap(ret) = Substituted(NameString(unwrap(call).sensor),
                                  unwrap(call).caps)

---------------------------------------------------------------------------
(* aster-sysinfo: write_sensor_file step by step, every I/O step of which  *)
(* may fail (aster-sysinfo/src/main.rs:127-164)                            *)

\* writeln!(stream, "{label}: {value}")
format_line(label, value) == label \o <<58, 32>> \o value \o <<10>>

\* the lines of the sensors in the order the HashMap yields them
RECURSIVE file_lines(_, _)
file_lines(sensors, order) ==
    IF order = <<>> THEN <<>>
    ELSE format_line(Head(order), sensors[Head(order)])
         \o file_lines(sensors, Tail(order))

\* the buffer is appended to the destination file itself
write_out_dest(files, buf) ==
    [files EXCEPT !.out = Some((IF is_some(@) THEN unwrap(@) ELSE <<>>) \o buf)]

\* BufWriter<&NamedTempFile>: the buffer is appended to the temporary file
write_out(files, buf) == [files EXCEPT !.tmp = Some(unwrap(@) \o buf)]

\* NamedTempFile::persist: rename(tmp, out_file)
persist(files) == [files EXCEPT !.out = files.tmp, !.tmp = None]

\* the NamedTempFile is dropped: the temporary file is deleted
drop_tmp(files) == [files EXCEPT !.tmp = None]

\* labels "a" and "b"
FileLabels == {<<97>>, <<98>>}

FileSensors == UNION {[present -> MergeTexts] : present \in SUBSET FileLabels}

\* the destination before the call: absent, a directory, or the complete
\* file of an earlier call
InitFile ==
    /\ call \in {Some([sensors |-> sensors, left |-> DOMAIN sensors]) :
                    sensors \in FileSensors}
    /\ fs \in {[out |-> None, is_dir |-> is_dir, tmp |-> None] :
                  is_dir \in BOOLEAN}
             \cup UNION {{[out |-> Some(file_lines(earlier, order)),
                           is_dir |-> FALSE, tmp |-> None] :
                             order \in hash_orders(DOMAIN earlier)} :
                         earlier \in FileSensors}
    /\ stream = <<>>
    /\ ret = None
    /\ pc = "write_call"
    /\ cfg = Config(<<>>, None, Setup(None, None, None, None))
    /\ sensor_values = <<>>
    /\ poller = "new"
    /\ hour = 0
    /\ LoopRest
    /\ StoreRest

\* main.rs:132-135 of aster-sysinfo: a directory as output ends the process
CheckOutFile ==
    /\ pc = "write_call"
    /\ pc' = IF fs.is_dir THEN "exited" ELSE "create_tmp"
    /\ UNCHANGED <<cfg, sensor_values, poller, loopVars, storeVars, callVars,
                   fileVars>>

\* 138-149: create_dir_all and the named temporary file, or the error
CreateTmp ==
    /\ pc = "create_tmp"
    /\ \E ok \in BOOLEAN :
          IF ok THEN /\ fs' = [fs EXCEPT !.tmp = Some(<<>>)]
                     /\ pc' = "writing"
                     /\ ret' = ret
                ELSE /\ fs' = fs
                     /\ pc' = "ret_err"
                     /\ ret' = Some("Err")
    /\ UNCHANGED <<cfg, sensor_values, poller, loopVars, storeVars, call,
                   stream>>

\* 154-156: writeln! of the next entry; a full buffer is written out to
\* the file first, and that write may fail
WriteLine ==
    /\ pc = "writing"
    /\ \E label \in unwrap(call).left : \E ok, full \in BOOLEAN :
          LET line == format_line(label, unwrap(call).sensors[label])
          IN  IF ok
              THEN /\ fs' = IF full THEN write_out(fs, stream) ELSE fs
                   /\ stream' = IF full THEN line ELSE stream \o line
                   /\ call' = Some([unwrap(call) EXCEPT !.left = @ \ {label}])
                   /\ pc' = pc
                   /\ ret' = ret
              ELSE /\ fs' = drop_tmp(fs)
                   /\ stream' = <<>>
                   /\ call' = call
                   /\ pc' = "ret_err"
                   /\ ret' = Some("Err")
    /\ UNCHANGED <<cfg, sensor_values, poller, loopVars, storeVars>>

\* 158-159: stream.flush(), drop(stream)
Flush ==
    /\ pc = "writing"
    /\ unwrap(call).left = {}
    /\ \E ok \in BOOLEAN :
          IF ok THEN /\ fs' = write_out(fs, stream)
                     /\ pc' = "persist"
                     /\ ret' = ret
                ELSE /\ fs' = drop_tmp(fs)
                     /\ pc' = "ret_err"
                     /\ ret' = Some("Err")
    /\ stream' = <<>>
    /\ UNCHANGED <<cfg, sensor_values, poller, loopVars, storeVars, call>>

\* 161-163: tmp_file.persist(out_file), Ok(()) or the error
Persist ==
    /\ pc = "persist"
    /\ \E ok \in BOOLEAN :
          IF ok THEN /\ fs' = persist(fs)
                     /\ pc' = "ret_ok"
                     /\ ret' = Some("Ok")
                ELSE /\ fs' = drop_tmp(fs)
                     /\ pc' = "ret_err"
                     /\ ret' = Some("Err")
    /\ UNCHANGED <<cfg, sensor_values, poller, loopVars, storeVars, call,
                   stream>>

NextFile == CheckOutFile \/ CreateTmp \/ WriteLine \/ Flush \/ Persist

SpecFile == InitFile /\ [][NextFile]_vars

\* the complete files of the call's sensors: one line per entry, in any
\* order of the entries
CompleteFiles ==
    {file_lines(unwrap(call).sensors, order) :
        order \in hash_orders(DOMAIN unwrap(call).sensors)}

\* C19: the destination changes only in the successful rename, which
\* happens after the flush and installs the complete temporary file (one
\* "label: value" line per entry); every other step, failed ones included,
\* leaves the destination as it was, and every failed step returns an
\* error.
C19_DestinationNeverPartial ==
    /\ [](/\ (pc = "persist") => (fs.tmp \in {Some(f) : f \in CompleteFiles})
          /\ (pc = "ret_ok") =>
                 (/\ ret = Some("Ok")
                  /\ fs.out \in {Some(f) : f \in CompleteFiles})
          /\ (pc = "ret_err") => (ret = Some("Err"))
          /\ (pc \notin {"ret_ok", "ret_err"}) => (ret = None))
    /\ [][/\ (fs'.out # fs.out) =>
                 (/\ pc = "persist" /\ pc' = "ret_ok"
                  /\ stream = <<>>
                  /\ fs'.out = fs.tmp)
          /\ (pc' = "ret_err") => (fs'.out = fs.out)
          /\ fs'.is_dir = fs.is_dir]_vars

\* a call with two entries has replaced an earlier complete file
C19_Witness ==
    /\ pc = "ret_ok"
    /\ Cardinality(DOMAIN unwrap(call).sensors) = 2
    /\ fs.out \in {Some(f) : f \in CompleteFiles}
    /\ fs.tmp = None

---------------------------------------------------------------------------
(* The page index of the cycle loop (main.rs:268-282, 379)                 *)

\* C20 (checked under Spec): the index is 0 until the loop starts; when
\* the dwell of page i ends the index becomes (i + 1) mod the number of
\* pages; the rebuild and the selection that follow leave it alone, so the
\* page shown next is that one; and wherever the page is selected or shown
\* the index is below the number of pages, also after a rebuild that
\* changed the page list.
C20_CyclicInRange ==
    /\ [](/\ (pc \in {"start", "compile", "initial_build"}) => (page_idx = 0)
          /\ (pc \in {"select", "tick"}) => (page_idx < Len(pages)))
    /\ [][/\ Advance => (page_idx' = (page_idx + 1) % Len(pages))
          /\ (pc = "tick" /\ ~Advance) => (page_idx' = page_idx)
          /\ (pc \in {"rebuild", "select"}) =>
                 (page_idx' = page_idx /\ page_idx' < Len(pages'))]_vars

\* the index wrapped to 0 after the last of several pages and the rebuild
\* that followed changed the page list
C20_Witness ==
    /\ pc = "select"
    /\ elapsed > 0
    /\ page_idx = 0
    /\ tick_log.rebuild = "changed"
    /\ Len(pages) >= 3

---------------------------------------------------------------------------
(* The rebuild points of the cycle loop (main.rs:269-276)                  *)

\* the step at the top of an iteration of the cycle loop
RebuildStep == pc = "rebuild" /\ pc' = "select"

\* C21 (checked under Spec): the page list changes only in the initial
\* build and at the top of an iteration that starts with index 0; such an
\* iteration installs the build of the store as it is then (or keeps the
\* list when that build is empty), any other iteration leaves the list
\* alone; and with a single page every dwell ends with index 0 again.
C21_RebuildAtIndexZero ==
    [][/\ (pages' # pages) =>
             (pc = "initial_build" \/ (RebuildStep /\ page_idx = 0))
       /\ (RebuildStep /\ page_idx = 0) =>
             (/\ pages' = rebuild_pages(pages, SnapshotBuild)
              /\ tick_log'.rebuild # "skipped")
       /\ (RebuildStep /\ page_idx # 0) =>
             (/\ pages' = pages
              /\ tick_log'.rebuild = "skipped")
       /\ (Advance /\ Len(pages) = 1) => (page_idx' = 0)]_vars

\* an iteration in the middle of a pass skipped the rebuild although the
\* store has gained a key that a rebuild would have turned into a page
C21_Witness ==
    /\ pc = "select"
    /\ page_idx > 0
    /\ tick_log.rebuild = "skipped"
    /\ SnapshotBuild # pages

---------------------------------------------------------------------------
(* The dwell of a page while the schedule is inactive (main.rs:306-334)    *)

\* an iteration of the refresh loop that found the schedule inactive and
\* returned no error
InactiveTick ==
    /\ pc = "tick"
    /\ hour' = hour
    /\ sensor_values' = sensor_values
    /\ tick_log'.schedule = "inactive"
    /\ ~tick_log'.err

\* C22 (checked under Spec): an inactive tick adds its 30 s sleep to the
\* time elapsed since the page was selected, renders and sends nothing,
\* and leaves the page exactly when the elapsed time has reached the
\* page's duration, advancing the index; the iteration that follows
\* rebuilds at index 0 also while the schedule is inactive.
C22_DwellAccruesWhileInactive ==
    [][/\ InactiveTick =>
             (/\ \/ elapsed' >= elapsed + InactiveSleep
                 \/ elapsed' = DwellCap
              /\ tick_log'.render = "none"
              /\ \A i \in DOMAIN tick_log'.cmds : tick_log'.cmds[i][1] = "off"
              /\ IF elapsed' >= page_duration(pages[page_idx + 1], cfg)
                 THEN pc' = "rebuild"
                      /\ page_idx' = (page_idx + 1) % Len(pages)
                 ELSE pc' = "tick" /\ page_idx' = page_idx)
       /\ (RebuildStep /\ page_idx = 0 /\ ~is_display_active(cfg, hour)) =>
             (pages' = rebuild_pages(pages, SnapshotBuild))]_vars

\* the 40 s time page, the last of several pages, was left on a tick that
\* found the schedule inactive and issued no command, the display being
\* off already
C22_Witness ==
    /\ pc = "rebuild"
    /\ tick_log.schedule = "inactive"
    /\ tick_log.cmds = <<>>
    /\ display_off
    /\ page_idx = 0
    /\ Len(pages) >= 2
    /\ cfg.setup.time_page_time = Some(40)
    /\ elapsed >= 40

---------------------------------------------------------------------------
(* The value lookup of the selected page (main.rs:282-304)                 *)

\* HashMap::get(key).cloned()
hash_get(store, key) == IF key \in DOMAIN store THEN Some(store[key]) ELSE None

\* let page = &pages[page_idx], after the index was clamped
selected_page == pages[clamp_idx(page_idx, Len(pages)) + 1]

\* C23 (checked under Spec): in the cycle loop every sensor page of the
\* PageSet refers to a key of the store, whatever the poller has merged
\* since the build, and the lookup made for the selected sensor page finds
\* a value, so that its "N/A" fallback is not taken.
C23_PageKeysInStore ==
    /\ pc \in InLoop => (pages # <<>> /\ PageKeys \subseteq DOMAIN sensor_values)
    /\ (pc = "select" /\ selected_page.kind = "Sensor") =>
          is_some(hash_get(sensor_values, selected_page.sensor_key))

\* a sensor page is selected when the poller has merged, since the build,
\* a key that a template matches
C23_Witness ==
    /\ pc = "select"
    /\ selected_page.kind = "Sensor"
    /\ is_some(hash_get(sensor_values, selected_page.sensor_key))
    /\ \E k \in DOMAIN sensor_values \ PageKeys : Templated(k)

---------------------------------------------------------------------------
(* Sensor pages across rebuilds (main.rs:243-276, 424-466)                 *)

\* the (sensor key, template) pairs that have a page in a PageSet
PagePairs(page_set) ==
    {<<page_set[i].sensor_key, page_set[i].template>> :
        i \in {j \in DOMAIN page_set : page_set[j].kind = "Sensor"}}

\* C24 (checked under Spec): once the loop has been entered, every pair of
\* sensor key and template that has a page in the active PageSet, the
\* result of an earlier build, has a page in the build of the store as it
\* is now and in every later PageSet; a rebuild at index 0 returns a
\* non-empty PageSet, which becomes the active one, and the branch that
\* keeps the previous PageSet is never taken.
C24_PagesMonotone ==
    /\ [](pc \in InLoop =>
             PagePairs(pages) \subseteq PagePairs(SnapshotBuild))
    /\ [][/\ (pc \in InLoop /\ pages' # pages) =>
                (PagePairs(pages) \subseteq PagePairs(pages'))
          /\ (RebuildStep /\ page_idx = 0) =>
                (SnapshotBuild # <<>> /\ pages' = SnapshotBuild)
          /\ (pc \in InLoop) => (tick_log'.rebuild # "kept")]_vars

\* a rebuild at index 0 has changed the PageSet, which now has pages for
\* two sensor keys
C24_Witness ==
    /\ pc = "select"
    /\ tick_log.rebuild = "changed"
    /\ Cardinality(PageKeys) >= 2

---------------------------------------------------------------------------
(* Text inserted by expand_template_name (main.rs:470-485)                 *)

\* format!("{{{i}}}")
Placeholder(i) == <<LBrace, Digit(i), RBrace>>

\* str::contains
Contains(text, part) ==
    \E k \in 0..(Len(text) - Len(part)) :
        SubSeq(text, k + 1, k + Len(part)) = part

\* C25 (checked under SpecExpand): for every placeholder {i}, 1 <= i <= 9,
\* of the name string, the result holds the text of group i as it was
\* captured, also when that text reads as a placeholder, and holds the
\* placeholder itself when group i did not participate in the match.
C25_InsertedTextIsLiteral ==
    pc = "expand_ret" =>
        \A i \in 1..9 :
            Contains(NameString(unwrap(call).sensor), Placeholder(i)) =>
                LET group == caps_get(unwrap(call).caps, i)
                IN  Contains(unwrap(ret),
                             IF is_some(group) THEN unwrap(group)
                             ELSE Placeholder(i))

=============================================================================
